---- MODULE Spec2Model ----
(***************************************************************************)
(* Model of generate-icons.py: the PWA icon generator.  One run of         *)
(* create_pwa_icons loads the logo, computes a crop box around the centre, *)
(* clamps it, pads the crop to a square and then, for each size of         *)
(* ICON_SIZES, composites the resized square on a dark canvas, flattens it *)
(* to RGB and saves it.                                                    *)
(*                                                                         *)
(* Rasters are modelled by their mode, their dimensions and one sample     *)
(* pixel <<channel, alpha>> taken inside the logo; geometry is exact.      *)
(* Python float arithmetic (0.4, 0.9, 1.1, 0.10) is carried out in exact   *)
(* tenths / hundredths, which agrees with the IEEE results of the script   *)
(* (compared for every source size up to 3000 x 1200).  A later run of the *)
(* script is followed after a completed run.                               *)
(***************************************************************************)
EXTENDS Integers, Sequences, FiniteSets, TLC

VARIABLES
    pc,         \* position of the run inside create_pwa_icons
    run,        \* number of the current invocation of the script
    storage,    \* the files on storage: path -> content
    original,   \* the decoded RGBA source (line 21)
    box,        \* left, top, right, bottom (lines 36-57)
    cropped,    \* original.crop(...) (line 60)
    square,     \* the Working Square (lines 67-70)
    idx,        \* how many sizes of ICON_SIZES the loop has completed
    icon_rgb,   \* the raster last handed to icon_rgb.save (line 99)
    written,    \* the paths this run has saved, in order
    before      \* what the previous run left: its storage and geometry

vars == <<pc, run, storage, original, box, cropped, square, idx, icon_rgb,
          written, before>>

----------------------------------------------------------------------------
(* Bounds of the model *)

MaxW == 56

MaxH == 22

MaxRuns == 2

\* source sizes of the fair specification (termination does not depend on them)
MaxFairW == 12

MaxFairH == 6

----------------------------------------------------------------------------
(* Configuration, lines 11-16 and 80 *)

BACKGROUND_COLOR == <<10, 10, 10, 255>>

OUTPUT_DIR == "image"

SOURCE_LOGO == <<"image", <<"gcaLogo.png">>>>

ICON_SIZES == <<72, 96, 128, 144, 152, 192, 384, 512>>

\* padding_percent = 0.10, in hundredths
padding_percent == 10

\* 8-bit channels
MaxChannel == 255

\* absent values: a variable not yet assigned, a path with no file, a file
\* that does not decode
None == [mode |-> "None"]

NoFile == [mode |-> "NoFile"]

Corrupt == [mode |-> "Corrupt"]

----------------------------------------------------------------------------
(* Arithmetic helpers *)

Min(a, b) == IF a <= b THEN a ELSE b

Max(a, b) == IF a >= b THEN a ELSE b

\* Python int(n / d) for d > 0: truncation toward zero
IntTrunc(n, d) == IF n >= 0 THEN n \div d ELSE -((-n) \div d)

----------------------------------------------------------------------------
(* Crop geometry, lines 27-57 *)

\* variant: max taken for min in line 32
half_cropMax(W, H) == Max(10 * H, 4 * W) \div 20

\* crop_size = min(orig_height, orig_width * 0.4); half_crop = int(crop_size // 2)
\* (crop_size in tenths)
half_crop(W, H) == Min(10 * H, 4 * W) \div 20

\* variant: a bottom bias of 1.2 in line 39
InitialBoxBias(W, H) ==
    LET cx == W \div 2
        cy == H \div 2
        h  == half_crop(W, H)
    IN  [left   |-> cx - h,
         top    |-> IntTrunc(10 * cy - 9 * h, 10),
         right  |-> cx + h,
         bottom |-> IntTrunc(10 * cy + 12 * h, 10)]

\* lines 27-39: the box around the centre, shifted up by the 0.9 / 1.1 bias
InitialBox(W, H) ==
    LET cx == W \div 2
        cy == H \div 2
        h  == half_crop(W, H)
    IN  [left   |-> cx - h,
         top    |-> IntTrunc(10 * cy - 9 * h, 10),
         right  |-> cx + h,
         bottom |-> IntTrunc(10 * cy + 11 * h, 10)]

\* lines 42-51: extend the shorter dimension by diff // 2 on each side
MakeSquare(b) ==
    LET crop_width  == b.right - b.left
        crop_height == b.bottom - b.top
    IN  IF crop_height > crop_width
        THEN LET diff == crop_height - crop_width
             IN  [b EXCEPT !.left = @ - diff \div 2, !.right = @ + diff \div 2]
        ELSE IF crop_width > crop_height
        THEN LET diff == crop_width - crop_height
             IN  [b EXCEPT !.top = @ - diff \div 2, !.bottom = @ + diff \div 2]
        ELSE b

SquareBox(W, H) == MakeSquare(InitialBox(W, H))

\* variant: width and height exchanged in lines 56-57
ClampSwapped(b, W, H) ==
    [left   |-> Max(0, b.left),
     top    |-> Max(0, b.top),
     right  |-> Min(H, b.right),
     bottom |-> Min(W, b.bottom)]

\* lines 54-57: keep the box inside the image
Clamp(b, W, H) ==
    [left   |-> Max(0, b.left),
     top    |-> Max(0, b.top),
     right  |-> Min(W, b.right),
     bottom |-> Min(H, b.bottom)]

----------------------------------------------------------------------------
(* Rasters.  A raster is [mode, width, height, px, region, inset]:         *)
(*   px     = <<channel, alpha>> of one sample pixel inside the logo       *)
(*   region = <<left, top, right, bottom>> of the source it depicts        *)
(*   inset  = where the depicted part sits inside this raster              *)

Whole(w, h) == [x |-> 0, y |-> 0, w |-> w, h |-> h]

\* Image.new(mode, (w, h), color); an RGB raster has no alpha channel
NewImage(mode, w, h, color) ==
    [mode |-> mode, width |-> w, height |-> h,
     px |-> <<color[1], IF mode = "RGBA" THEN color[4] ELSE MaxChannel>>,
     region |-> <<0, 0, 0, 0>>, inset |-> Whole(0, 0)]

\* line 21: Image.open(SOURCE_LOGO).convert("RGBA")
Load(file) ==
    [mode |-> "RGBA", width |-> file.width, height |-> file.height,
     px |-> <<file.px[1], IF file.mode = "RGBA" THEN file.px[2] ELSE MaxChannel>>,
     region |-> <<0, 0, file.width, file.height>>,
     inset |-> Whole(file.width, file.height)]

\* line 60: original.crop((left, top, right, bottom))
Crop(im, b) ==
    [im EXCEPT !.width = b.right - b.left, !.height = b.bottom - b.top,
               !.region = <<b.left, b.top, b.right, b.bottom>>,
               !.inset = Whole(b.right - b.left, b.bottom - b.top)]

\* Pillow's 8-bit blend, used by paste with an RGBA mask:
\* DIV255(in1 * (255 - mask) + in2 * mask)
DIV255(a) == LET tmp == a + 128 IN ((tmp \div 256) + tmp) \div 256

BLEND(mask, in1, in2) == DIV255(in1 * (MaxChannel - mask) + in2 * mask)

\* dst.paste(src, (x, y), src): every byte of the destination pixel, the
\* alpha byte of an RGBA destination included, is blended with src's alpha
\* as the weight
Paste(dst, src, x, y) ==
    [dst EXCEPT
        !.px = <<BLEND(src.px[2], dst.px[1], src.px[1]),
                 IF dst.mode = "RGBA"
                 THEN BLEND(src.px[2], dst.px[2], src.px[2])
                 ELSE MaxChannel>>,
        !.region = src.region,
        !.inset = [x |-> x + src.inset.x, y |-> y + src.inset.y,
                   w |-> src.inset.w, h |-> src.inset.h]]

\* variant: min taken for max in line 64
PadSquareMin(c) ==
    LET max_dim == Min(c.width, c.height)
        paste_x == (max_dim - c.width) \div 2
        paste_y == (max_dim - c.height) \div 2
    IN  Paste(NewImage("RGBA", max_dim, max_dim, <<0, 0, 0, 0>>), c,
              paste_x, paste_y)

\* lines 63-70: the Working Square
PadSquare(c) ==
    LET max_dim == Max(c.width, c.height)
        paste_x == (max_dim - c.width) \div 2
        paste_y == (max_dim - c.height) \div 2
    IN  Paste(NewImage("RGBA", max_dim, max_dim, <<0, 0, 0, 0>>), c,
              paste_x, paste_y)

\* line 84: square.resize((n, n), LANCZOS).  The sample pixel lies in a
\* uniformly coloured part of the logo and keeps its value; resampling an
\* empty square yields transparent pixels.
Resize(sq, n) ==
    [sq EXCEPT !.width = n, !.height = n,
               !.px = IF sq.width = 0 \/ sq.height = 0 THEN <<0, 0>> ELSE @,
               !.inset = Whole(n, n)]

\* variant: round() taken for int() in line 81
LogoSizeRounded(size) == (size * (100 - padding_percent * 2) + 50) \div 100

\* line 81: logo_size = int(size * (1 - padding_percent * 2))
LogoSize(size) == IntTrunc(size * (100 - padding_percent * 2), 100)

\* line 87
Offset(size) == (size - LogoSize(size)) \div 2

\* lines 77-90: the RGBA icon, logo composited on the dark canvas
Composite(sq, size) ==
    Paste(NewImage("RGBA", size, size, BACKGROUND_COLOR),
          Resize(sq, LogoSize(size)), Offset(size), Offset(size))

\* variant: the RGBA icon saved without lines 94-95
FlattenSkipped(icon) == icon

\* lines 94-95: icon_rgb = Image.new("RGB", ...); icon_rgb.paste(icon, (0, 0), icon)
Flatten(icon) ==
    Paste(NewImage("RGB", icon.width, icon.height, BACKGROUND_COLOR), icon, 0, 0)

MakeIcon(sq, size) == Flatten(Composite(sq, size))

\* variant: the largest icon saved over the logo itself
OutputPathOverSource(size) ==
    IF size = 512 THEN SOURCE_LOGO
    ELSE <<OUTPUT_DIR, <<"icon-", size, "x", size, ".png">>>>

\* variant: the size shortened to its hundreds in the file name
OutputPathWidthOnly(size) == <<OUTPUT_DIR, <<"icon-", size \div 100, "x", size \div 100, ".png">>>>

\* line 98: os.path.join(OUTPUT_DIR, f"icon-{size}x{size}.png")
OutputPath(size) == <<OUTPUT_DIR, <<"icon-", size, "x", size, ".png">>>>

Paths == {SOURCE_LOGO} \cup {OutputPath(ICON_SIZES[i]) : i \in DOMAIN ICON_SIZES}

----------------------------------------------------------------------------
(* Source files the run may find at SOURCE_LOGO *)

\* sample pixels: fully transparent, half transparent, opaque without alpha
SourcePixels == {<<"RGBA", <<0, 0>>>>, <<"RGBA", <<255, 128>>>>, <<"RGB", <<200, 255>>>>}

SourceSizes == ((1..MaxW) \X (1..MaxH)) \cup {<<800, 400>>}

SourceFiles ==
    {[mode |-> p[1], width |-> d[1], height |-> d[2], px |-> p[2]] :
        p \in SourcePixels, d \in SourceSizes}

----------------------------------------------------------------------------
(* The run *)

Init ==
    /\ pc = "start"
    /\ run = 1
    /\ \E src \in SourceFiles \cup {NoFile, Corrupt} :
          storage = [p \in Paths |-> IF p = SOURCE_LOGO THEN src ELSE NoFile]
    /\ original = None
    /\ box = None
    /\ cropped = None
    /\ square = None
    /\ idx = 0
    /\ icon_rgb = None
    /\ written = <<>>
    /\ before = None

\* line 21, the file decodes
LoadLogo ==
    /\ pc = "start"
    /\ storage[SOURCE_LOGO] \notin {NoFile, Corrupt}
    /\ original' = Load(storage[SOURCE_LOGO])
    /\ pc' = "loaded"
    /\ UNCHANGED <<run, storage, box, cropped, square, idx, icon_rgb, written, before>>

\* line 21, the file is missing or unreadable: the exception ends the run
DecodeFail ==
    /\ pc = "start"
    /\ storage[SOURCE_LOGO] \in {NoFile, Corrupt}
    /\ pc' = "failed"
    /\ UNCHANGED <<run, storage, original, box, cropped, square, idx, icon_rgb,
                   written, before>>

\* lines 27-51
CropBox ==
    /\ pc = "loaded"
    /\ box' = SquareBox(original.width, original.height)
    /\ pc' = "boxed"
    /\ UNCHANGED <<run, storage, original, cropped, square, idx, icon_rgb, written,
                   before>>

\* lines 54-60
ClampCrop ==
    /\ pc = "boxed"
    /\ box' = Clamp(box, original.width, original.height)
    /\ cropped' = Crop(original, box')
    /\ pc' = "cropped"
    /\ UNCHANGED <<run, storage, original, square, idx, icon_rgb, written, before>>

\* lines 63-70
Pad ==
    /\ pc = "cropped"
    /\ square' = PadSquare(cropped)
    /\ idx' = 0
    /\ pc' = "loop"
    /\ UNCHANGED <<run, storage, original, box, cropped, icon_rgb, written, before>>

\* lines 73-100, one iteration whose save succeeds
Generate ==
    /\ pc = "loop"
    /\ idx < Len(ICON_SIZES)
    /\ LET size == ICON_SIZES[idx + 1] IN
          /\ icon_rgb' = MakeIcon(square, size)
          /\ storage' = [storage EXCEPT ![OutputPath(size)] = icon_rgb']
          /\ written' = Append(written, OutputPath(size))
    /\ idx' = idx + 1
    /\ UNCHANGED <<pc, run, original, box, cropped, square, before>>

\* variant: the exception of save swallowed, the loop going on
WriteFailContinue ==
    /\ pc = "loop"
    /\ idx < Len(ICON_SIZES)
    /\ icon_rgb' = MakeIcon(square, ICON_SIZES[idx + 1])
    /\ idx' = idx + 1
    /\ UNCHANGED <<pc, run, storage, original, box, cropped, square, written, before>>

\* lines 73-99, one iteration whose save raises: the exception ends the run
WriteFail ==
    /\ pc = "loop"
    /\ idx < Len(ICON_SIZES)
    /\ icon_rgb' = MakeIcon(square, ICON_SIZES[idx + 1])
    /\ pc' = "failed"
    /\ UNCHANGED <<run, storage, original, box, cropped, square, idx, written, before>>

\* lines 102-105
Finish ==
    /\ pc = "loop"
    /\ idx = Len(ICON_SIZES)
    /\ pc' = "done"
    /\ UNCHANGED <<run, storage, original, box, cropped, square, idx, icon_rgb,
                   written, before>>

\* line 108: the script is invoked again after a completed run
Restart ==
    /\ pc = "done"
    /\ run < MaxRuns
    /\ before' = [storage |-> storage, box |-> box, square |-> square]
    /\ run' = run + 1
    /\ pc' = "start"
    /\ original' = None
    /\ box' = None
    /\ cropped' = None
    /\ square' = None
    /\ idx' = 0
    /\ icon_rgb' = None
    /\ written' = <<>>
    /\ UNCHANGED storage

\* the statements of the script itself; whether line 21 decodes is settled
\* by the file on storage, whether a save fails by the environment
Step == LoadLogo \/ DecodeFail \/ CropBox \/ ClampCrop \/ Pad \/ Generate \/ Finish

Next == Step \/ WriteFail \/ Restart

Spec == Init /\ [][Next]_vars

FairInit ==
    /\ Init
    /\ storage[SOURCE_LOGO] \in SourceFiles =>
          \/ (storage[SOURCE_LOGO].width <= MaxFairW /\ storage[SOURCE_LOGO].height <= MaxFairH)
          \/ (storage[SOURCE_LOGO].width = 800 /\ storage[SOURCE_LOGO].height = 400)

\* the interpreter always executes the next statement of a run in progress
FairSpec == FairInit /\ [][Next]_vars /\ WF_vars(Step)

----------------------------------------------------------------------------
(* Properties *)

OutputPaths == {OutputPath(ICON_SIZES[i]) : i \in DOMAIN ICON_SIZES}

\* the size whose raster was last handed to save
SavedSize == IF pc = "failed" THEN ICON_SIZES[idx + 1] ELSE ICON_SIZES[idx]

\* C1: for every size s of ICON_SIZES the raster handed to the save step is
\* exactly s x s and has no alpha channel (fully opaque), whatever the source
\* dimensions and the transparency of the logo; so is every file on storage.
C1_IconSizeOpaque ==
    /\ icon_rgb # None =>
          /\ icon_rgb.width = SavedSize
          /\ icon_rgb.height = SavedSize
          /\ icon_rgb.mode = "RGB"
          /\ icon_rgb.px[2] = MaxChannel
    /\ \A i \in DOMAIN ICON_SIZES :
          LET f == storage[OutputPath(ICON_SIZES[i])] IN
          f # NoFile =>
             /\ f.width = ICON_SIZES[i]
             /\ f.height = ICON_SIZES[i]
             /\ f.mode = "RGB"

C1_Witness ==
    /\ pc = "done"
    /\ storage[SOURCE_LOGO].px[2] = 128
    /\ original.width # original.height
    /\ icon_rgb.width = 512
    /\ storage[OutputPath(72)].width = 72

\* C2: the Working Square is square, its edge is max(cropped_width,
\* cropped_height), and the crop is pasted at ((edge - cropped_width) // 2,
\* (edge - cropped_height) // 2), entirely inside the square.
C2_WorkingSquare ==
    square # None =>
       LET edge == Max(cropped.width, cropped.height) IN
       /\ square.width = square.height
       /\ square.width = edge
       /\ square.inset = [x |-> (edge - cropped.width) \div 2,
                          y |-> (edge - cropped.height) \div 2,
                          w |-> cropped.width, h |-> cropped.height]
       /\ square.inset.x >= 0
       /\ square.inset.y >= 0
       /\ square.inset.x + square.inset.w <= square.width
       /\ square.inset.y + square.inset.h <= square.height

C2_Witness ==
    /\ square # None
    /\ cropped.height < cropped.width
    /\ square.inset.y + square.inset.h < square.height

\* the crop box before clamping reaches outside the source
ExceedsBounds(b, W, H) == b.left < 0 \/ b.top < 0 \/ b.right > W \/ b.bottom > H

\* C3: when the crop box computed for a W x H source (W, H >= 1) exceeds the
\* source bounds before clamping, the clamped box has 0 <= left < right <= W
\* and 0 <= top < bottom <= H.
C3_ClampNonEmpty ==
    (cropped # None /\ ExceedsBounds(SquareBox(original.width, original.height),
                                     original.width, original.height)) =>
       /\ 0 <= box.left /\ box.left < box.right /\ box.right <= original.width
       /\ 0 <= box.top /\ box.top < box.bottom /\ box.bottom <= original.height

C3_Witness ==
    /\ cropped # None
    /\ SquareBox(original.width, original.height).bottom > original.height
    /\ box.bottom = original.height

\* C4: the Working Square edge is at most min(W, H) and equals the (longer)
\* edge of the clamped crop region; for an 800 x 400 source the box is
\* (240, 56, 560, 376), inside the image without clamping, and the edge is 320.
C4_EdgeBound ==
    square # None =>
       /\ square.width <= Min(original.width, original.height)
       /\ square.width = Max(box.right - box.left, box.bottom - box.top)
       /\ (original.width = 800 /\ original.height = 400) =>
             /\ box = [left |-> 240, top |-> 56, right |-> 560, bottom |-> 376]
             /\ box = SquareBox(800, 400)
             /\ cropped.width = 320 /\ cropped.height = 320
             /\ square.width = 320

C4_Witness ==
    /\ square # None
    /\ original.width = 800
    /\ original.height = 400
    /\ square.width = 320

\* C5: for every size s the logo edge is floor(s * 8 / 10), the paste offset
\* is floor((s - edge) / 2), the logo lies inside the s x s canvas and the
\* margins on opposite sides differ by at most one pixel; for s = 72 the edge
\* is 57 and the margins are 7 and 8.
C5_LogoGeometry ==
    icon_rgb # None =>
       LET s    == SavedSize
           edge == icon_rgb.inset.w
           off  == icon_rgb.inset.x
           far  == s - off - edge
       IN  /\ icon_rgb.inset.h = edge
           /\ icon_rgb.inset.y = off
           /\ edge = (s * 8) \div 10
           /\ off = (s - edge) \div 2
           /\ off >= 0
           /\ off + edge <= s
           /\ far - off \in {0, 1}
           /\ s = 72 => (edge = 57 /\ off = 7 /\ far = 8)

C5_Witness ==
    /\ pc = "loop"
    /\ idx = 1
    /\ icon_rgb.inset = [x |-> 7, y |-> 7, w |-> 57, h |-> 57]

\* the first n output paths, in list order
PrefixPaths(n) == [i \in 1..n |-> OutputPath(ICON_SIZES[i])]

\* C6: at every moment the files written so far by the run are a prefix of
\* ICON_SIZES in list order; a failing step stops the run at once, writes no
\* file for that size or a later one, is not retried, and leaves the files
\* already written unchanged.
C6_FailStop ==
    /\ [](/\ Len(written) <= Len(ICON_SIZES)
          /\ written = PrefixPaths(Len(written))
          /\ \A i \in 1..Len(written) : storage[written[i]] # NoFile
          /\ (run = 1 =>
                \A i \in (Len(written) + 1)..Len(ICON_SIZES) :
                   storage[OutputPath(ICON_SIZES[i])] = NoFile))
    /\ [][/\ (pc = "failed" => UNCHANGED vars)
          /\ (pc' = "failed" => (storage' = storage /\ written' = written))
          /\ ((run' = run /\ written' # written) =>
                written' = Append(written, OutputPath(ICON_SIZES[Len(written) + 1])))]_vars

C6_Witness ==
    /\ pc = "failed"
    /\ Len(written) = 3
    /\ storage[OutputPath(128)] # NoFile
    /\ storage[OutputPath(144)] = NoFile

\* C7: a second run after a completed one reads the same source (no output
\* path is the source path), computes the same crop box and Working Square,
\* and leaves each of the 8 files with the content the first run wrote.
C7_Idempotent ==
    /\ \A i \in DOMAIN ICON_SIZES : OutputPath(ICON_SIZES[i]) # SOURCE_LOGO
    /\ run > 1 =>
          /\ storage[SOURCE_LOGO] = before.storage[SOURCE_LOGO]
          /\ cropped # None => box = before.box
          /\ square # None => square = before.square
          /\ \A i \in 1..Len(written) : storage[written[i]] = before.storage[written[i]]
          /\ pc = "done" => storage = before.storage

C7_Witness ==
    /\ run = 2
    /\ pc = "done"
    /\ Len(written) = Len(ICON_SIZES)
    /\ storage[OutputPath(512)] # NoFile

\* what a completed run has written
AllWritten ==
    /\ written = PrefixPaths(Len(ICON_SIZES))
    /\ Cardinality({written[i] : i \in DOMAIN written}) = Len(ICON_SIZES)
    /\ \A i \in DOMAIN written :
          /\ written[i][1] = OUTPUT_DIR
          /\ written[i][2][1] = "icon-"
          /\ written[i][2][2] = ICON_SIZES[i]
          /\ written[i][2][4] = written[i][2][2]
          /\ storage[written[i]] # NoFile
    /\ {p \in Paths : storage[p] # NoFile} = {SOURCE_LOGO} \cup OutputPaths

\* C8: unless a decode or write step fails, a run terminates having written
\* exactly one file per size of ICON_SIZES and no other, named
\* icon-<s>x<s>.png, pairwise distinct, once each and in list order.
C8_Completes ==
    /\ [](pc = "done" => AllWritten)
    /\ (pc \notin {"done", "failed"}) ~> (pc \in {"done", "failed"})

C8_Witness ==
    /\ pc = "done"
    /\ run = 1
    /\ Len(written) = 8
    /\ written[8] = <<"image", <<"icon-", 512, "x", 512, ".png">>>>

\* C9: after the make-it-square step and before the clamp the crop box has
\* right - left = bottom - top.
C9_SquareBeforeClamp ==
    pc = "boxed" => box.right - box.left = box.bottom - box.top

C9_Witness ==
    /\ pc = "boxed"
    /\ box.bottom > original.height
    /\ box.right - box.left = 20

\* C10: inside the logo box the written pixel is the single alpha-over blend
\* of the resized logo's channel c over the background b with weight a / 255:
\* the flatten step does not change the colour of the first composite.
C10_SingleBlend ==
    (icon_rgb # None /\ square # None) =>
       LET logo == Resize(square, LogoSize(SavedSize))
           c    == logo.px[1]
           a    == logo.px[2]
           b    == BACKGROUND_COLOR[1]
       IN  /\ icon_rgb.px[1] = BLEND(a, b, c)
           /\ icon_rgb.px[1] = Composite(square, SavedSize).px[1]

====
